---- MODULE Spec2Model ----
(***************************************************************************)
(* Model of the out-of-domain evaluation frame (common/src/proof/          *)
(* ood_frame.rs) and of the trace interpolation pipeline declared in       *)
(* prover/src/trace/mod.rs, over a toy prime field.                        *)
(***************************************************************************)
EXTENDS Integers, Sequences, FiniteSets, TLC

\* ------------------------------------------------------------------------
\* Bounds of the model
\* ------------------------------------------------------------------------
\* largest trace width: number of field elements in one row of a frame
MaxWidth == 2
\* largest number of constraint evaluations
MaxEvals == 1
\* largest byte length of one region of a deserialized OodFrame
MaxBytes == 2
\* number of populate and write_into calls followed on one instance
MaxOps == 2
\* largest trace length is 2^MaxLogLen rows
MaxLogLen == 2
\* index of the last sample evaluation point
MaxPointIdx == 1

\* ------------------------------------------------------------------------
\* Field element capability (toy prime field, two bytes per element)
\* ------------------------------------------------------------------------
Modulus == 257
ELEMENT_BYTES == 2
ByteBase == 256

add(a, b) == (a + b) % Modulus
mul(a, b) == (a * b) % Modulus

\* exponentiation by squaring
RECURSIVE pow(_, _)
pow(b, e) ==
    IF e = 0 THEN 1
    ELSE IF e % 2 = 0 THEN pow(mul(b, b), e \div 2)
    ELSE mul(b, pow(mul(b, b), e \div 2))

\* little-endian canonical encoding of one (reduced) field element
to_canonical_bytes(x) ==
    [j \in 1..ELEMENT_BYTES |-> (x \div (ByteBase ^ (j - 1))) % ByteBase]

RECURSIVE bytes_to_int(_)
bytes_to_int(bytes) ==
    IF bytes = <<>> THEN 0
    ELSE Head(bytes) + ByteBase * bytes_to_int(Tail(bytes))

\* decoding of a byte region: fails when the length is not a whole number
\* of elements or when an element is not a canonical representative
read_elements_into_vec(source) ==
    IF Len(source) % ELEMENT_BYTES # 0
    THEN [ok |-> FALSE, err |-> "NotEnoughBytesForWholeElements", elems |-> <<>>]
    ELSE LET n == Len(source) \div ELEMENT_BYTES
             vals == [i \in 1..n |->
                        bytes_to_int(SubSeq(source, (i - 1) * ELEMENT_BYTES + 1,
                                            i * ELEMENT_BYTES))]
         IN  IF \E i \in 1..n : vals[i] >= Modulus
             THEN [ok |-> FALSE, err |-> "FailedToReadElement", elems |-> <<>>]
             ELSE [ok |-> TRUE, err |-> "", elems |-> vals]

TWO_ADICITY == 8
TWO_ADIC_ROOT_OF_UNITY == 3

inv(x) == pow(x, Modulus - 2)

\* root of unity of order 2^n
get_root_of_unity(n) == pow(TWO_ADIC_ROOT_OF_UNITY, 2 ^ (TWO_ADICITY - n))

RECURSIVE log2(_)
log2(n) == IF n <= 1 THEN 0 ELSE 1 + log2(n \div 2)


\* ------------------------------------------------------------------------
\* Inputs
\* ------------------------------------------------------------------------
\* sample field elements: the two bytes of an element matter for both
InputElems == {1, Modulus - 1}
\* sample byte values: <<1, 1>> is not the encoding of a field element
InputBytes == {0, 1}
Rows == UNION {[1..k -> InputElems] : k \in 0..MaxWidth}
EvalSeqs == UNION {[1..k -> InputElems] : k \in 0..MaxEvals}
ByteSeqs == UNION {[1..k -> InputBytes] : k \in 0..MaxBytes}
Widths == 0..MaxWidth
NumEvals == 0..MaxEvals
TraceWidths == 1..MaxWidth
TraceLengths == {2 ^ k : k \in 1..MaxLogLen}
\* sample columns of a given length: the arithmetic progressions a, a + b, ...
\* and the columns that differ from the constant 1 in one row only
Progression(a, b, len) == [i \in 1..len |-> (a + b * (i - 1)) % Modulus]
Spike(k, len) == [i \in 1..len |-> IF i = k THEN Modulus - 1 ELSE 1]
TraceColumns(len) ==
    {Progression(a, b, len) : a \in {1, 5}, b \in {0, 1}}
        \cup {Spike(k, len) : k \in 1..len}
Points == {pow(TWO_ADIC_ROOT_OF_UNITY, k) : k \in 0..MaxPointIdx}
Generators == {get_root_of_unity(k) : k \in 1..MaxLogLen}

\* ------------------------------------------------------------------------
\* OodFrame: pure parts of the operations
\* ------------------------------------------------------------------------
\* variant: only the low byte of every element is written
RECURSIVE elements_to_canonical_bytes_low_byte(_)
elements_to_canonical_bytes_low_byte(elements) ==
    IF elements = <<>> THEN <<>>
    ELSE <<Head(to_canonical_bytes(Head(elements)))>>
            \o elements_to_canonical_bytes_low_byte(Tail(elements))

\* variant: every element's bytes are put in front of the buffer
RECURSIVE elements_to_canonical_bytes_prepend(_)
elements_to_canonical_bytes_prepend(elements) ==
    IF elements = <<>> THEN <<>>
    ELSE elements_to_canonical_bytes_prepend(Tail(elements))
            \o to_canonical_bytes(Head(elements))

RECURSIVE elements_to_canonical_bytes(_)
elements_to_canonical_bytes(elements) ==
    IF elements = <<>> THEN <<>>
    ELSE to_canonical_bytes(Head(elements))
            \o elements_to_canonical_bytes(Tail(elements))

OodFrame_default ==
    [trace_at_z1 |-> <<>>, trace_at_z2 |-> <<>>, evaluations |-> <<>>]

OodFrame_new(frame, evaluations) ==
    [trace_at_z1 |-> elements_to_canonical_bytes(frame.current),
     trace_at_z2 |-> elements_to_canonical_bytes(frame.next),
     evaluations |-> elements_to_canonical_bytes(evaluations)]

\* variant: only the first of the two assertions is made
set_evaluation_frame_ok_current_only(s) ==
    s.trace_at_z1 = <<>>

\* the two assertions of set_evaluation_frame
set_evaluation_frame_ok(s) ==
    s.trace_at_z1 = <<>> /\ s.trace_at_z2 = <<>>

\* variant: the two rows are stored in each other's field
set_evaluation_frame_swapped(s, frame) ==
    [s EXCEPT !.trace_at_z1 = elements_to_canonical_bytes(frame.next),
              !.trace_at_z2 = elements_to_canonical_bytes(frame.current)]

set_evaluation_frame(s, frame) ==
    [s EXCEPT !.trace_at_z1 = elements_to_canonical_bytes(frame.current),
              !.trace_at_z2 = elements_to_canonical_bytes(frame.next)]

\* variant: the assertion looks at trace_at_z1
set_constraint_evaluations_ok_wrong_field(s) ==
    s.trace_at_z1 = <<>>

\* the assertion of set_constraint_evaluations
set_constraint_evaluations_ok(s) ==
    s.evaluations = <<>>

\* variant: trace_at_z2 is reset when the evaluations are stored
set_constraint_evaluations_resets_next(s, evaluations) ==
    [s EXCEPT !.evaluations = elements_to_canonical_bytes(evaluations),
              !.trace_at_z2 = <<>>]

set_constraint_evaluations(s, evaluations) ==
    [s EXCEPT !.evaluations = elements_to_canonical_bytes(evaluations)]

FailedToParseOodFrame(detail) ==
    [kind |-> "FailedToParseOodFrame", detail |-> detail]

WrongNumberOfOodTraceElements(expected, actual) ==
    [kind |-> "WrongNumberOfOodTraceElements",
     expected |-> expected, actual |-> actual]

WrongNumberOfOodEvaluationElements(expected, actual) ==
    [kind |-> "WrongNumberOfOodEvaluationElements",
     expected |-> expected, actual |-> actual]

Ok(frame, evaluations) ==
    [kind |-> "Ok", frame |-> frame, evaluations |-> evaluations]

\* variant: the three regions are decoded before any count is compared
parse_decode_first(s, trace_width, num_evaluations) ==
    LET current == read_elements_into_vec(s.trace_at_z1)
        next == read_elements_into_vec(s.trace_at_z2)
        evaluations == read_elements_into_vec(s.evaluations)
    IN  IF ~current.ok THEN FailedToParseOodFrame(current.err)
        ELSE IF ~next.ok THEN FailedToParseOodFrame(next.err)
        ELSE IF ~evaluations.ok THEN FailedToParseOodFrame(evaluations.err)
        ELSE IF Len(current.elems) # trace_width
        THEN WrongNumberOfOodTraceElements(trace_width, Len(current.elems))
        ELSE IF Len(next.elems) # trace_width
        THEN WrongNumberOfOodTraceElements(trace_width, Len(next.elems))
        ELSE IF Len(evaluations.elems) # num_evaluations
        THEN WrongNumberOfOodEvaluationElements(num_evaluations,
                                                Len(evaluations.elems))
        ELSE Ok([current |-> current.elems, next |-> next.elems],
                evaluations.elems)

\* variant: the error values carry (actual, expected)
parse_swapped_counts(s, trace_width, num_evaluations) ==
    LET current == read_elements_into_vec(s.trace_at_z1)
        next == read_elements_into_vec(s.trace_at_z2)
        evaluations == read_elements_into_vec(s.evaluations)
    IN  IF ~current.ok THEN FailedToParseOodFrame(current.err)
        ELSE IF Len(current.elems) # trace_width
        THEN WrongNumberOfOodTraceElements(Len(current.elems), trace_width)
        ELSE IF ~next.ok THEN FailedToParseOodFrame(next.err)
        ELSE IF Len(next.elems) # trace_width
        THEN WrongNumberOfOodTraceElements(Len(next.elems), trace_width)
        ELSE IF ~evaluations.ok THEN FailedToParseOodFrame(evaluations.err)
        ELSE IF Len(evaluations.elems) # num_evaluations
        THEN WrongNumberOfOodEvaluationElements(Len(evaluations.elems),
                                                num_evaluations)
        ELSE Ok([current |-> current.elems, next |-> next.elems],
                evaluations.elems)

\* variant: the element count of trace_at_z2 is not checked
parse_unchecked_next(s, trace_width, num_evaluations) ==
    LET current == read_elements_into_vec(s.trace_at_z1)
        next == read_elements_into_vec(s.trace_at_z2)
        evaluations == read_elements_into_vec(s.evaluations)
    IN  IF ~current.ok THEN FailedToParseOodFrame(current.err)
        ELSE IF Len(current.elems) # trace_width
        THEN WrongNumberOfOodTraceElements(trace_width, Len(current.elems))
        ELSE IF ~next.ok THEN FailedToParseOodFrame(next.err)
        ELSE IF ~evaluations.ok THEN FailedToParseOodFrame(evaluations.err)
        ELSE IF Len(evaluations.elems) # num_evaluations
        THEN WrongNumberOfOodEvaluationElements(num_evaluations,
                                                Len(evaluations.elems))
        ELSE Ok([current |-> current.elems, next |-> next.elems],
                evaluations.elems)

\* variant: the element counts are compared before the decoding outcome is
\* looked at, so that an undecodable region counts as zero elements
parse_count_first(s, trace_width, num_evaluations) ==
    LET current == read_elements_into_vec(s.trace_at_z1)
        next == read_elements_into_vec(s.trace_at_z2)
        evaluations == read_elements_into_vec(s.evaluations)
    IN  IF Len(current.elems) # trace_width
        THEN WrongNumberOfOodTraceElements(trace_width, Len(current.elems))
        ELSE IF ~current.ok THEN FailedToParseOodFrame(current.err)
        ELSE IF Len(next.elems) # trace_width
        THEN WrongNumberOfOodTraceElements(trace_width, Len(next.elems))
        ELSE IF ~next.ok THEN FailedToParseOodFrame(next.err)
        ELSE IF Len(evaluations.elems) # num_evaluations
        THEN WrongNumberOfOodEvaluationElements(num_evaluations,
                                                Len(evaluations.elems))
        ELSE IF ~evaluations.ok THEN FailedToParseOodFrame(evaluations.err)
        ELSE Ok([current |-> current.elems, next |-> next.elems],
                evaluations.elems)

parse(s, trace_width, num_evaluations) ==
    LET current == read_elements_into_vec(s.trace_at_z1)
        next == read_elements_into_vec(s.trace_at_z2)
        evaluations == read_elements_into_vec(s.evaluations)
    IN  IF ~current.ok THEN FailedToParseOodFrame(current.err)
        ELSE IF Len(current.elems) # trace_width
        THEN WrongNumberOfOodTraceElements(trace_width, Len(current.elems))
        ELSE IF ~next.ok THEN FailedToParseOodFrame(next.err)
        ELSE IF Len(next.elems) # trace_width
        THEN WrongNumberOfOodTraceElements(trace_width, Len(next.elems))
        ELSE IF ~evaluations.ok THEN FailedToParseOodFrame(evaluations.err)
        ELSE IF Len(evaluations.elems) # num_evaluations
        THEN WrongNumberOfOodEvaluationElements(num_evaluations,
                                                Len(evaluations.elems))
        ELSE Ok([current |-> current.elems, next |-> next.elems],
                evaluations.elems)

\* variant: nothing is written unless the three regions are populated
write_into_full_only(s, buf) ==
    IF s.trace_at_z1 = <<>> \/ s.trace_at_z2 = <<>> \/ s.evaluations = <<>>
    THEN buf
    ELSE ((buf \o s.trace_at_z1) \o s.trace_at_z2) \o s.evaluations

\* variant: the buffer is replaced instead of extended
write_into_overwrite(s, buf) ==
    (s.trace_at_z1 \o s.trace_at_z2) \o s.evaluations

\* variant: trace_at_z2 is written before trace_at_z1
write_into_z2_first(s, buf) ==
    ((buf \o s.trace_at_z2) \o s.trace_at_z1) \o s.evaluations

write_into(s, buf) ==
    ((buf \o s.trace_at_z1) \o s.trace_at_z2) \o s.evaluations

\* ------------------------------------------------------------------------
\* Trace pipeline: pure parts (TraceTable, TraceBuilder, TracePolyTable)
\* ------------------------------------------------------------------------
\* radix-2 transform of a power-of-two number of values at the powers of root
RECURSIVE fft(_, _)
fft(values, root) ==
    IF Len(values) = 1 THEN values
    ELSE LET h == Len(values) \div 2
             even == fft([i \in 1..h |-> values[2 * i - 1]], mul(root, root))
             odd == fft([i \in 1..h |-> values[2 * i]], mul(root, root))
         IN  [k \in 1..(2 * h) |->
                 LET m == IF k <= h THEN k ELSE k - h
                 IN  add(even[m], mul(pow(root, k - 1), odd[m]))]

\* variant: the transform is not scaled by the inverse of the length
interpolate_poly_unscaled(values) ==
    fft(values, inv(get_root_of_unity(log2(Len(values)))))

\* coefficients of the polynomial of degree < Len(values) that takes
\* values[i] at the (i-1)-th power of the trace domain generator
interpolate_poly(values) ==
    LET n == Len(values)
        c == fft(values, inv(get_root_of_unity(log2(n))))
    IN  [i \in 1..n |-> mul(c[i], inv(n))]

\* Horner evaluation, lowest coefficient first
RECURSIVE polynom_eval(_, _)
polynom_eval(p, x) ==
    IF p = <<>> THEN 0
    ELSE add(Head(p), mul(x, polynom_eval(Tail(p), x)))

\* TraceBuilder: one polynomial per column, in column order
build(trace) ==
    [c \in 1..Len(trace) |-> interpolate_poly(trace[c])]

evaluate_at(polys, x) ==
    [c \in 1..Len(polys) |-> polynom_eval(polys[c], x)]

\* variant: the next row is evaluated at z + g
get_evaluation_frame_shifted(polys, z, g) ==
    [current |-> evaluate_at(polys, z), next |-> evaluate_at(polys, add(z, g))]

get_evaluation_frame(polys, z, g) ==
    [current |-> evaluate_at(polys, z), next |-> evaluate_at(polys, mul(z, g))]

\* ------------------------------------------------------------------------
\* State
\* ------------------------------------------------------------------------
VARIABLES
    pc,        \* "init", "live", "halted" (failed assertion), "parsed"
    self,      \* the OodFrame instance: its three byte vectors
    target,    \* the output buffer handed to write_into
    result,    \* the value returned by parse
    origin,    \* "constructed" (default, new) or "deserialized"
    start,     \* the instance as it was made
    inp,       \* the field elements last stored by new / the populate calls
    calls,     \* names of the populate calls made so far, rejected one included
    writes,    \* number of write_into calls made so far
    args,      \* the arguments of the parse call
    tpc,         \* trace pipeline: "init", "table", "built"
    trace_table, \* the TraceTable: one sequence of row values per column
    poly_table,  \* the TracePolyTable: one coefficient sequence per column
    out          \* the last answer of the TracePolyTable, with its arguments

ood_vars == <<pc, self, target, result, origin, start, inp, calls, writes, args>>
trace_vars == <<tpc, trace_table, poly_table, out>>
vars == <<pc, self, target, result, origin, start, inp, calls, writes, args,
          tpc, trace_table, poly_table, out>>

NoResult == [kind |-> "none"]
NoArgs == [trace_width |-> 0, num_evaluations |-> 0]
NoInput == [current |-> <<>>, next |-> <<>>, evaluations |-> <<>>]
NoOut == [op |-> "none"]

Init ==
    /\ pc = "init"
    /\ self = OodFrame_default
    /\ target = <<>>
    /\ result = NoResult
    /\ origin = "none"
    /\ start = OodFrame_default
    /\ inp = NoInput
    /\ calls = <<>>
    /\ writes = 0
    /\ args = NoArgs
    /\ tpc = "init"
    /\ trace_table = <<>>
    /\ poly_table = <<>>
    /\ out = NoOut

\* ------------------------------------------------------------------------
\* Operations
\* ------------------------------------------------------------------------
\* impl Default for OodFrame
Default ==
    /\ pc = "init"
    /\ pc' = "live"
    /\ self' = OodFrame_default
    /\ start' = self'
    /\ origin' = "constructed"
    /\ UNCHANGED <<target, result, inp, calls, writes, args>>
    /\ UNCHANGED trace_vars

\* OodFrame::new
New ==
    /\ pc = "init"
    /\ \E cur \in Rows, nxt \in Rows, ev \in EvalSeqs :
          /\ self' = OodFrame_new([current |-> cur, next |-> nxt], ev)
          /\ inp' = [current |-> cur, next |-> nxt, evaluations |-> ev]
    /\ start' = self'
    /\ pc' = "live"
    /\ origin' = "constructed"
    /\ UNCHANGED <<target, result, calls, writes, args>>
    /\ UNCHANGED trace_vars

\* #[derive(Deserialize)]: an instance received with arbitrary byte vectors
Deserialize ==
    /\ pc = "init"
    /\ \E b1 \in ByteSeqs, b2 \in ByteSeqs, b3 \in ByteSeqs :
          self' = [trace_at_z1 |-> b1, trace_at_z2 |-> b2, evaluations |-> b3]
    /\ start' = self'
    /\ pc' = "live"
    /\ origin' = "deserialized"
    /\ UNCHANGED <<target, result, inp, calls, writes, args>>
    /\ UNCHANGED trace_vars

\* the populate calls are the prover's: they are followed on the instances
\* the prover builds (default or new), not on the ones a verifier receives
SetEvaluationFrame ==
    /\ pc = "live"
    /\ origin # "deserialized"
    /\ Len(calls) + writes < MaxOps
    /\ calls' = Append(calls, "set_evaluation_frame")
    /\ IF set_evaluation_frame_ok(self)
       THEN \E cur \in Rows, nxt \in Rows :
               /\ self' = set_evaluation_frame(self,
                                               [current |-> cur, next |-> nxt])
               /\ inp' = [inp EXCEPT !.current = cur, !.next = nxt]
               /\ pc' = "live"
       ELSE /\ pc' = "halted"
            /\ UNCHANGED <<self, inp>>
    /\ UNCHANGED <<target, result, origin, start, writes, args>>
    /\ UNCHANGED trace_vars

SetConstraintEvaluations ==
    /\ pc = "live"
    /\ origin # "deserialized"
    /\ Len(calls) + writes < MaxOps
    /\ calls' = Append(calls, "set_constraint_evaluations")
    /\ IF set_constraint_evaluations_ok(self)
       THEN \E ev \in EvalSeqs :
               /\ self' = set_constraint_evaluations(self, ev)
               /\ inp' = [inp EXCEPT !.evaluations = ev]
               /\ pc' = "live"
       ELSE /\ pc' = "halted"
            /\ UNCHANGED <<self, inp>>
    /\ UNCHANGED <<target, result, origin, start, writes, args>>
    /\ UNCHANGED trace_vars

\* write_into is the prover's too
WriteInto ==
    /\ pc = "live"
    /\ origin # "deserialized"
    /\ Len(calls) + writes < MaxOps
    /\ target' = write_into(self, target)
    /\ writes' = writes + 1
    /\ UNCHANGED <<pc, self, result, origin, start, inp, calls, args>>
    /\ UNCHANGED trace_vars

\* parse takes the instance by value: nothing can be done with it afterwards
Parse ==
    /\ pc = "live"
    /\ \E w \in Widths, n \in NumEvals :
          /\ result' = parse(self, w, n)
          /\ args' = [trace_width |-> w, num_evaluations |-> n]
    /\ pc' = "parsed"
    /\ UNCHANGED <<self, target, origin, start, inp, calls, writes>>
    /\ UNCHANGED trace_vars

Next ==
    \/ Default
    \/ New
    \/ Deserialize
    \/ SetEvaluationFrame
    \/ SetConstraintEvaluations
    \/ WriteInto
    \/ Parse

Spec == Init /\ [][Next]_vars

\* ------------------------------------------------------------------------
\* Trace pipeline: operations
\* ------------------------------------------------------------------------
\* the caller hands over a TraceTable: width columns of a power-of-two length
TraceTableNew ==
    /\ tpc = "init"
    /\ \E w \in TraceWidths, len \in TraceLengths :
          \E cols \in [1..w -> TraceColumns(len)] :
              trace_table' = cols
    /\ tpc' = "table"
    /\ UNCHANGED <<poly_table, out>>
    /\ UNCHANGED ood_vars

\* TraceBuilder consumes the table and publishes the polynomials
Build ==
    /\ tpc = "table"
    /\ poly_table' = build(trace_table)
    /\ tpc' = "built"
    /\ UNCHANGED <<trace_table, out>>
    /\ UNCHANGED ood_vars

EvaluateAt ==
    /\ tpc = "built"
    /\ \E x \in Points :
          out' = [op |-> "evaluate_at", x |-> x,
                  values |-> evaluate_at(poly_table, x)]
    /\ UNCHANGED <<tpc, trace_table, poly_table>>
    /\ UNCHANGED ood_vars

GetEvaluationFrame ==
    /\ tpc = "built"
    /\ \E z \in Points, g \in Generators :
          out' = [op |-> "get_evaluation_frame", z |-> z, g |-> g,
                  frame |-> get_evaluation_frame(poly_table, z, g)]
    /\ UNCHANGED <<tpc, trace_table, poly_table>>
    /\ UNCHANGED ood_vars

NextTrace ==
    \/ TraceTableNew
    \/ Build
    \/ EvaluateAt
    \/ GetEvaluationFrame

SpecTrace == Init /\ [][NextTrace]_vars

\* ------------------------------------------------------------------------
\* Properties of the out-of-domain frame
\* ------------------------------------------------------------------------
InputFrame == [current |-> inp.current, next |-> inp.next]
\* bytes is the encoding of k field elements
Encodes(bytes, k) ==
    /\ Len(bytes) = k * ELEMENT_BYTES
    /\ read_elements_into_vec(bytes).ok
NumCalls(name) == Cardinality({i \in DOMAIN calls : calls[i] = name})

\* C1 (round trip): an instance made by OodFrame::new(f, e), with both rows
\* of f holding w elements and e holding n elements, written out or not,
\* parses with parse(w, n) to Ok((f, e)): the same elements in the same order.
C1_RoundTrip ==
    (/\ pc = "parsed"
     /\ origin = "constructed"
     /\ calls = <<>>
     /\ Len(inp.current) = args.trace_width
     /\ Len(inp.next) = args.trace_width
     /\ Len(inp.evaluations) = args.num_evaluations)
    => result = Ok(InputFrame, inp.evaluations)

C1_Witness ==
    /\ pc = "parsed"
    /\ origin = "constructed"
    /\ calls = <<>>
    /\ writes >= 1
    /\ result.kind = "Ok"
    /\ Len(inp.current) = 2
    /\ Len(inp.evaluations) = 1
    /\ inp.current[1] # inp.current[2]
    /\ inp.current # inp.next
    /\ inp.evaluations[1] # inp.next[2]

\* C2 (write-once, as claimed): whatever the arguments, the second call of
\* set_evaluation_frame, and the second call of set_constraint_evaluations,
\* on one instance is rejected.
C2_SecondCallRejected ==
    (\/ NumCalls("set_evaluation_frame") >= 2
     \/ NumCalls("set_constraint_evaluations") >= 2)
    => pc = "halted"

\* C3 (binary layout): write_into appends exactly
\* (|current| + |next| + |evaluations|) * ELEMENT_BYTES bytes: the canonical
\* bytes of every element of current, then of next, then of evaluations,
\* with nothing before, between or after them.
C3_Layout ==
    [][writes' = writes + 1 =>
        LET base == Len(target)
            w1 == Len(inp.current)
            w2 == Len(inp.next)
            n == Len(inp.evaluations)
        IN  /\ Len(target') = base + (w1 + w2 + n) * ELEMENT_BYTES
            /\ SubSeq(target', 1, base) = target
            /\ \A j \in 1..ELEMENT_BYTES :
                  /\ \A i \in 1..w1 :
                        target'[base + (i - 1) * ELEMENT_BYTES + j]
                            = to_canonical_bytes(inp.current[i])[j]
                  /\ \A i \in 1..w2 :
                        target'[base + (w1 + i - 1) * ELEMENT_BYTES + j]
                            = to_canonical_bytes(inp.next[i])[j]
                  /\ \A i \in 1..n :
                        target'[base + (w1 + w2 + i - 1) * ELEMENT_BYTES + j]
                            = to_canonical_bytes(inp.evaluations[i])[j]
      ]_vars

C3_Witness ==
    /\ writes = 1
    /\ Len(inp.current) = 2
    /\ Len(inp.next) = 2
    /\ inp.current # inp.next
    /\ Len(inp.evaluations) = 1
    /\ Len(target) = 5 * ELEMENT_BYTES

\* C4 (trace length mismatch): when both trace regions decode to k elements
\* and parse is given a trace_width other than k, parse returns
\* WrongNumberOfOodTraceElements(trace_width, k), whatever num_evaluations
\* and the evaluations region are.
C4_TraceMismatch ==
    \A k \in 0..(MaxWidth + 1) :
        (/\ pc = "parsed"
         /\ args.trace_width # k
         /\ Encodes(self.trace_at_z1, k)
         /\ Encodes(self.trace_at_z2, k))
        => /\ result.kind = "WrongNumberOfOodTraceElements"
           /\ result.expected = args.trace_width
           /\ result.actual = k

C4_Witness ==
    /\ pc = "parsed"
    /\ origin = "constructed"
    /\ Len(inp.current) = 2
    /\ Len(inp.next) = 2
    /\ args.trace_width = 1
    /\ result.kind = "WrongNumberOfOodTraceElements"
    /\ result.actual = 2

\* C5 (evaluation length mismatch): when both trace regions decode to the
\* trace_width given to parse, the evaluations region decodes to m elements
\* and num_evaluations is not m, parse returns
\* WrongNumberOfOodEvaluationElements(num_evaluations, m).
C5_EvaluationMismatch ==
    \A m \in 0..(MaxEvals + 1) :
        (/\ pc = "parsed"
         /\ args.num_evaluations # m
         /\ Encodes(self.trace_at_z1, args.trace_width)
         /\ Encodes(self.trace_at_z2, args.trace_width)
         /\ Encodes(self.evaluations, m))
        => /\ result.kind = "WrongNumberOfOodEvaluationElements"
           /\ result.expected = args.num_evaluations
           /\ result.actual = m

C5_Witness ==
    /\ pc = "parsed"
    /\ origin = "constructed"
    /\ Len(inp.current) = 2
    /\ Len(inp.evaluations) = 1
    /\ args.num_evaluations = 0
    /\ result.kind = "WrongNumberOfOodEvaluationElements"
    /\ result.actual = 1

BadLength(bytes) == Len(bytes) % ELEMENT_BYTES # 0

\* C6 (decode failure, as claimed): when any of the three regions has a
\* length that is not a multiple of ELEMENT_BYTES, parse returns
\* FailedToParseOodFrame, whatever its arguments and the other two regions.
C6_AnyRegion ==
    (/\ pc = "parsed"
     /\ \/ BadLength(self.trace_at_z1)
        \/ BadLength(self.trace_at_z2)
        \/ BadLength(self.evaluations))
    => result.kind = "FailedToParseOodFrame"

\* C6 (amended): a region whose length is not a multiple of ELEMENT_BYTES
\* makes parse return FailedToParseOodFrame when every region before it
\* decodes to exactly trace_width elements; for trace_at_z1, the first
\* region, that is for every choice of the arguments and of the other regions.
C6_FirstFaultyRegion ==
    pc = "parsed" =>
        /\ BadLength(self.trace_at_z1)
              => result.kind = "FailedToParseOodFrame"
        /\ (/\ BadLength(self.trace_at_z2)
            /\ Encodes(self.trace_at_z1, args.trace_width))
              => result.kind = "FailedToParseOodFrame"
        /\ (/\ BadLength(self.evaluations)
            /\ Encodes(self.trace_at_z1, args.trace_width)
            /\ Encodes(self.trace_at_z2, args.trace_width))
              => result.kind = "FailedToParseOodFrame"

C6_Witness ==
    /\ pc = "parsed"
    /\ origin = "deserialized"
    /\ Len(self.trace_at_z1) = ELEMENT_BYTES
    /\ Len(self.trace_at_z2) = ELEMENT_BYTES
    /\ Len(self.evaluations) = ELEMENT_BYTES - 1
    /\ args.trace_width = 1
    /\ result.kind = "FailedToParseOodFrame"

\* C7 (parse is exact): parse returns Ok exactly when the three regions
\* decode, both trace regions to trace_width elements and the evaluations
\* region to num_evaluations elements; the Ok value then holds precisely the
\* elements the regions encode; otherwise the result is one of the three
\* errors.
C7_OkOnlyWhenExact ==
    pc = "parsed" =>
        /\ result.kind \in {"Ok", "FailedToParseOodFrame",
                            "WrongNumberOfOodTraceElements",
                            "WrongNumberOfOodEvaluationElements"}
        /\ result.kind = "Ok" <=>
              /\ Encodes(self.trace_at_z1, args.trace_width)
              /\ Encodes(self.trace_at_z2, args.trace_width)
              /\ Encodes(self.evaluations, args.num_evaluations)
        /\ result.kind = "Ok" =>
              /\ Len(result.frame.current) = args.trace_width
              /\ Len(result.frame.next) = args.trace_width
              /\ Len(result.evaluations) = args.num_evaluations
              /\ elements_to_canonical_bytes(result.frame.current)
                    = self.trace_at_z1
              /\ elements_to_canonical_bytes(result.frame.next)
                    = self.trace_at_z2
              /\ elements_to_canonical_bytes(result.evaluations)
                    = self.evaluations

C7_Witness ==
    /\ pc = "parsed"
    /\ origin = "deserialized"
    /\ result.kind = "Ok"
    /\ args.trace_width = 1
    /\ args.num_evaluations = 1
    /\ self.trace_at_z1 # self.trace_at_z2

\* C8 (the populate calls commute): on a default instance,
\* set_evaluation_frame(f) then set_constraint_evaluations(e), and the same
\* two calls the other way round, both succeed and both leave the instance
\* OodFrame::new(f, e) builds.
C8_PopulateCommutes ==
    (/\ origin = "constructed"
     /\ start = OodFrame_default
     /\ calls \in {<<"set_evaluation_frame", "set_constraint_evaluations">>,
                   <<"set_constraint_evaluations", "set_evaluation_frame">>})
    => /\ pc # "halted"
       /\ self = OodFrame_new(InputFrame, inp.evaluations)

C8_Witness ==
    /\ origin = "constructed"
    /\ start = OodFrame_default
    /\ calls = <<"set_constraint_evaluations", "set_evaluation_frame">>
    /\ pc = "live"
    /\ Len(inp.current) = 2
    /\ inp.current # inp.next
    /\ Len(inp.evaluations) = 1
    /\ self.trace_at_z1 # self.trace_at_z2
    /\ self.evaluations # <<>>

\* ------------------------------------------------------------------------
\* Properties of the trace pipeline
\* ------------------------------------------------------------------------
TraceLength == Len(trace_table[1])
TraceGenerator == get_root_of_unity(log2(TraceLength))

\* C9 (interpolation/evaluation consistency): the polynomial table holds one
\* polynomial per column, in column order, each of exactly L coefficients,
\* and the polynomial of column c evaluated at the i-th point of the trace
\* domain (the i-th power of the L-th root of unity) is the value of column c
\* at row i.
C9_InterpolationConsistent ==
    tpc = "built" =>
        /\ Len(poly_table) = Len(trace_table)
        /\ \A c \in 1..Len(trace_table) :
              /\ Len(poly_table[c]) = TraceLength
              /\ \A i \in 1..TraceLength :
                    polynom_eval(poly_table[c], pow(TraceGenerator, i - 1))
                        = trace_table[c][i]

C9_Witness ==
    /\ tpc = "built"
    /\ Len(trace_table) = 2
    /\ TraceLength = 4
    /\ trace_table[1] # trace_table[2]
    /\ trace_table[1][1] # trace_table[1][2]
    /\ trace_table[2][3] # trace_table[2][4]
    /\ \E i \in 2..4 : poly_table[1][i] # 0

\* C10 (frame correctness): get_evaluation_frame(z, g) returns a frame with
\* one entry per column in current and in next; current[i] is polynomial i
\* evaluated at z and next[i] is polynomial i evaluated at z * g.
C10_FrameCorrect ==
    out.op = "get_evaluation_frame" =>
        /\ Len(out.frame.current) = Len(trace_table)
        /\ Len(out.frame.next) = Len(trace_table)
        /\ \A i \in 1..Len(poly_table) :
              /\ out.frame.current[i] = polynom_eval(poly_table[i], out.z)
              /\ out.frame.next[i]
                    = polynom_eval(poly_table[i], (out.z * out.g) % Modulus)

C10_Witness ==
    /\ out.op = "get_evaluation_frame"
    /\ Len(poly_table) = 2
    /\ TraceLength = 4
    /\ out.g = TraceGenerator
    /\ out.z \notin {pow(TraceGenerator, i) : i \in 0..3}
    /\ out.frame.current # out.frame.next
    /\ out.frame.current[1] # out.frame.current[2]

\* ------------------------------------------------------------------------
\* Properties of the out-of-domain frame: effects of the operations
\* ------------------------------------------------------------------------
\* the step is a call of write_into
IsWrite == writes' = writes + 1
\* the step is a call of the named populate operation
IsCall(name) == calls' = Append(calls, name)
\* the bytes the instance holds, region after region
Held(s) == (s.trace_at_z1 \o s.trace_at_z2) \o s.evaluations

\* C11 (write_into only appends): a write_into step keeps the old buffer as
\* a prefix of the new one, adds the bytes the instance holds and leaves the
\* three byte vectors alone; two calls in a row on an empty buffer leave the
\* same bytes twice.
C11_AppendOnly ==
    /\ [][IsWrite =>
            /\ Len(target') = Len(target) + Len(Held(self))
            /\ SubSeq(target', 1, Len(target)) = target
            /\ SubSeq(target', Len(target) + 1, Len(target')) = Held(self)
            /\ self' = self
         ]_vars
    /\ []((writes = 2 /\ calls = <<>>) =>
            LET h == Len(Held(self))
            IN  /\ Len(target) = 2 * h
                /\ SubSeq(target, 1, h) = Held(self)
                /\ SubSeq(target, h + 1, 2 * h) = Held(self))

C11_Witness ==
    /\ writes = 2
    /\ calls = <<>>
    /\ pc = "live"
    /\ self.trace_at_z1 # self.trace_at_z2
    /\ self.evaluations # <<>>
    /\ Len(target) = 2 * Len(Held(self))
    /\ Len(target) = 2 * 5 * ELEMENT_BYTES

\* C12 (populated fields are stable): in every step, a byte vector of the
\* instance that is not empty before the step holds the same bytes after it.
C12_PopulatedStable ==
    [][/\ self.trace_at_z1 # <<>> => self'.trace_at_z1 = self.trace_at_z1
       /\ self.trace_at_z2 # <<>> => self'.trace_at_z2 = self.trace_at_z2
       /\ self.evaluations # <<>> => self'.evaluations = self.evaluations
      ]_vars

C12_Witness ==
    /\ calls = <<"set_evaluation_frame">>
    /\ writes = 1
    /\ pc = "live"
    /\ self.trace_at_z1 # <<>>
    /\ self.trace_at_z1 = elements_to_canonical_bytes(inp.current)
    /\ target = Held(self)

\* C13 (rejected populate calls change nothing): set_evaluation_frame on an
\* instance whose trace_at_z1 or trace_at_z2 is not empty halts, and so does
\* set_constraint_evaluations on an instance whose evaluations is not empty;
\* the halting call leaves the three byte vectors as they were.
C13_RejectedUnchanged ==
    [][/\ (/\ IsCall("set_evaluation_frame")
           /\ (self.trace_at_z1 # <<>> \/ self.trace_at_z2 # <<>>))
          => (pc' = "halted" /\ self' = self)
       /\ (/\ IsCall("set_constraint_evaluations")
           /\ self.evaluations # <<>>)
          => (pc' = "halted" /\ self' = self)
      ]_vars

C13_Witness ==
    /\ pc = "halted"
    /\ calls = <<"set_evaluation_frame", "set_evaluation_frame">>
    /\ self.trace_at_z1 = <<>>
    /\ self.trace_at_z2 # <<>>
    /\ self.evaluations = <<>>

\* ------------------------------------------------------------------------
\* Properties of the out-of-domain frame: order of the checks of parse
\* ------------------------------------------------------------------------
\* outcome of the two checks parse makes on one region
RegionCheck(bytes, expected) ==
    IF Len(bytes) % ELEMENT_BYTES # 0 THEN "decode"
    ELSE IF ~read_elements_into_vec(bytes).ok THEN "decode"
    ELSE IF Len(bytes) # expected * ELEMENT_BYTES THEN "count"
    ELSE "pass"

\* C14 (first failing check wins): parse reports the first check that fails
\* in the order trace_at_z1 decoding, trace_at_z1 count, trace_at_z2
\* decoding, trace_at_z2 count, evaluations decoding, evaluations count;
\* a count error carries the expected count and the count of the region that
\* failed, and parse returns Ok when no check fails.
C14_FirstFailureWins ==
    pc = "parsed" =>
        LET c1 == RegionCheck(self.trace_at_z1, args.trace_width)
            c2 == RegionCheck(self.trace_at_z2, args.trace_width)
            c3 == RegionCheck(self.evaluations, args.num_evaluations)
        IN  /\ c1 = "decode" => result.kind = "FailedToParseOodFrame"
            /\ c1 = "count" =>
                  result = WrongNumberOfOodTraceElements(
                              args.trace_width,
                              Len(self.trace_at_z1) \div ELEMENT_BYTES)
            /\ (c1 = "pass" /\ c2 = "decode")
                  => result.kind = "FailedToParseOodFrame"
            /\ (c1 = "pass" /\ c2 = "count") =>
                  result = WrongNumberOfOodTraceElements(
                              args.trace_width,
                              Len(self.trace_at_z2) \div ELEMENT_BYTES)
            /\ (c1 = "pass" /\ c2 = "pass" /\ c3 = "decode")
                  => result.kind = "FailedToParseOodFrame"
            /\ (c1 = "pass" /\ c2 = "pass" /\ c3 = "count") =>
                  result = WrongNumberOfOodEvaluationElements(
                              args.num_evaluations,
                              Len(self.evaluations) \div ELEMENT_BYTES)
            /\ (c1 = "pass" /\ c2 = "pass" /\ c3 = "pass")
                  => result.kind = "Ok"

C14_Witness ==
    /\ pc = "parsed"
    /\ origin = "deserialized"
    /\ RegionCheck(self.trace_at_z1, args.trace_width) = "count"
    /\ RegionCheck(self.trace_at_z2, args.trace_width) = "decode"
    /\ RegionCheck(self.evaluations, args.num_evaluations) = "decode"
    /\ result.kind = "WrongNumberOfOodTraceElements"

\* ------------------------------------------------------------------------
\* Properties of the out-of-domain frame: instances the prover builds
\* ------------------------------------------------------------------------
\* C15 (well-formed lengths): on an instance made by default or new and the
\* populate calls, each byte vector is ELEMENT_BYTES bytes for every element
\* it was given, hence a multiple of ELEMENT_BYTES long, and parse never
\* returns FailedToParseOodFrame on it: it returns Ok or a wrong-count error.
C15_WellFormedLengths ==
    origin = "constructed" =>
        /\ Len(self.trace_at_z1) = Len(inp.current) * ELEMENT_BYTES
        /\ Len(self.trace_at_z2) = Len(inp.next) * ELEMENT_BYTES
        /\ Len(self.evaluations) = Len(inp.evaluations) * ELEMENT_BYTES
        /\ ~BadLength(self.trace_at_z1)
        /\ ~BadLength(self.trace_at_z2)
        /\ ~BadLength(self.evaluations)
        /\ pc = "parsed" =>
              result.kind \in {"Ok", "WrongNumberOfOodTraceElements",
                               "WrongNumberOfOodEvaluationElements"}

C15_Witness ==
    /\ origin = "constructed"
    /\ pc = "parsed"
    /\ calls = <<"set_constraint_evaluations", "set_evaluation_frame">>
    /\ Len(self.trace_at_z1) = MaxWidth * ELEMENT_BYTES
    /\ Len(self.trace_at_z2) = ELEMENT_BYTES
    /\ Len(self.evaluations) = ELEMENT_BYTES
    /\ result.kind = "WrongNumberOfOodTraceElements"

\* C16 (frame effects of the populate calls): a set_evaluation_frame call
\* that is accepted stores both rows in the same step and leaves evaluations
\* alone; a set_constraint_evaluations call that is accepted stores the
\* evaluations and leaves trace_at_z1 and trace_at_z2 alone; and when the two
\* rows given have the same length, trace_at_z1 is empty exactly when
\* trace_at_z2 is.
C16_PopulateFrame ==
    /\ [][/\ (IsCall("set_evaluation_frame") /\ pc' = "live") =>
                /\ self'.trace_at_z1
                      = elements_to_canonical_bytes(inp'.current)
                /\ self'.trace_at_z2 = elements_to_canonical_bytes(inp'.next)
                /\ self'.evaluations = self.evaluations
          /\ (IsCall("set_constraint_evaluations") /\ pc' = "live") =>
                /\ self'.evaluations
                      = elements_to_canonical_bytes(inp'.evaluations)
                /\ self'.trace_at_z1 = self.trace_at_z1
                /\ self'.trace_at_z2 = self.trace_at_z2
         ]_vars
    /\ []((origin = "constructed" /\ Len(inp.current) = Len(inp.next)) =>
            (self.trace_at_z1 = <<>> <=> self.trace_at_z2 = <<>>))

C16_Witness ==
    /\ pc = "live"
    /\ start = OodFrame_default
    /\ calls = <<"set_evaluation_frame", "set_constraint_evaluations">>
    /\ Len(inp.current) = Len(inp.next)
    /\ self.trace_at_z1 # <<>>
    /\ self.trace_at_z2 # <<>>
    /\ self.evaluations # <<>>

\* C17 (non-Full instances, as claimed): parse on an instance the prover
\* built whose trace regions are unpopulated while trace_width is positive,
\* or whose evaluations region is unpopulated while num_evaluations is
\* positive, returns a wrong-count error whose actual count is 0.
C17_ActualZero ==
    (/\ pc = "parsed"
     /\ origin = "constructed"
     /\ \/ /\ self.trace_at_z1 = <<>>
           /\ self.trace_at_z2 = <<>>
           /\ args.trace_width > 0
        \/ /\ self.evaluations = <<>>
           /\ args.num_evaluations > 0)
    => /\ result.kind \in {"WrongNumberOfOodTraceElements",
                           "WrongNumberOfOodEvaluationElements"}
       /\ result.actual = 0

\* C17 (amended): write_into and parse are accepted in every populate state.
\* write_into adds nothing for an instance with three empty regions and
\* exactly the populated regions otherwise.  parse, for the first region that
\* is unpopulated while every region before it holds exactly the expected
\* number of elements, returns the wrong-count error of that region with
\* actual 0 when the expected count of that region is positive; it returns Ok
\* with empty sequences for the unpopulated regions when their expected
\* counts are 0 and the populated regions hold exactly the expected number of
\* elements.
C17_Permissive ==
    /\ [][IsWrite =>
            /\ pc' = "live"
            /\ Held(self) = <<>> => target' = target
            /\ self.evaluations = <<>> =>
                  target' = (target \o self.trace_at_z1) \o self.trace_at_z2
            /\ (self.trace_at_z1 = <<>> /\ self.trace_at_z2 = <<>>) =>
                  target' = target \o self.evaluations
         ]_vars
    /\ [](pc = "parsed" =>
            LET w == args.trace_width
                n == args.num_evaluations
            IN  /\ (self.trace_at_z1 = <<>> /\ w > 0) =>
                      result = WrongNumberOfOodTraceElements(w, 0)
                /\ (/\ Encodes(self.trace_at_z1, w)
                    /\ self.trace_at_z2 = <<>>
                    /\ w > 0) =>
                      result = WrongNumberOfOodTraceElements(w, 0)
                /\ (/\ Encodes(self.trace_at_z1, w)
                    /\ Encodes(self.trace_at_z2, w)
                    /\ self.evaluations = <<>>
                    /\ n > 0) =>
                      result = WrongNumberOfOodEvaluationElements(n, 0)
                /\ (/\ Encodes(self.trace_at_z1, w)
                    /\ Encodes(self.trace_at_z2, w)
                    /\ self.evaluations = <<>>
                    /\ n = 0) =>
                      (result.kind = "Ok" /\ result.evaluations = <<>>)
                /\ (/\ self.trace_at_z1 = <<>>
                    /\ self.trace_at_z2 = <<>>
                    /\ w = 0
                    /\ Encodes(self.evaluations, n)) =>
                      /\ result.kind = "Ok"
                      /\ result.frame = [current |-> <<>>, next |-> <<>>])

C17_Witness ==
    /\ pc = "parsed"
    /\ start = OodFrame_default
    /\ calls = <<"set_evaluation_frame">>
    /\ writes = 1
    /\ self.evaluations = <<>>
    /\ target = self.trace_at_z1 \o self.trace_at_z2
    /\ Len(target) = 2 * ELEMENT_BYTES
    /\ result = WrongNumberOfOodEvaluationElements(1, 0)

====
